---- MODULE Spec2Model ----
(***************************************************************************)
(* GaussRace: ground plane picking (ground_plane.rs), the car's input      *)
(* integration, pose advancement and chase camera (car.rs) and the splat   *)
(* loader (splat_loader.rs), one Bevy Update frame at a time.              *)
(*                                                                         *)
(* The picker's numbers (the cursor ray, the hit points, the markers and   *)
(* the ground plane) are IEEE 754 binary32 values, and its arithmetic is   *)
(* glam's, one rounded f32 operation after the other.  The car's and the   *)
(* camera's numbers are fixed-point integers: the real number r is the     *)
(* integer r * Scale (one unit = 0.0001).  Their products and quotients    *)
(* truncate toward zero; the non-finite values are NaN, which every        *)
(* arithmetic operator propagates and every comparison answers FALSE on,   *)
(* and the infinities Inf and 0 - Inf, with the arithmetic of IEEE 754.    *)
(* The car reads the plane rounded to the nearest unit.                    *)
(***************************************************************************)
EXTENDS Integers, Sequences, FiniteSets, TLC

VARIABLES
    keyboard,          \* Res<ButtonInput<KeyCode>>: [pressed, just_pressed]
    mouse_button,      \* Res<ButtonInput<MouseButton>>: Left just pressed
    cursor_ray,        \* window.cursor_position() through viewport_to_world
    time,              \* Res<Time>: delta_secs of the frame
    ground_plane,      \* Res<GroundPlane>
    selection_state,   \* Local<PlaneSelectionState>
    markers,           \* the PlaneSelectionMarker entities, in spawn order
    marker_commands,   \* the picker's queued Commands, not yet applied
    car,               \* the Car component: [velocity, steering]
    car_transform,     \* the car's Transform: [translation, rotation]
    camera_transform,  \* the Camera3d's Transform: [translation, look_target]
    pc,                \* next system of the chained car systems
    selection_ran,     \* handle_plane_selection has run in this frame
    frame,             \* number of frames started
    load_state,        \* Res<State<SplatLoadState>>
    next_state,        \* ResMut<NextState<SplatLoadState>>: "Unchanged" or pending
    splat_path,        \* Option<Res<SplatPath>>: << >> or << path >>
    loaded_splats,     \* the LoadedSplat entities: [id, path, load]
    splat_commands,    \* Commands queued by the loader's systems in this frame
    drop_events,       \* the paths of the frame's FileDragAndDrop::DroppedFile
    loader_ran         \* steps of the loader's frame that have run

\* the splat loader's state
loader_vars == << load_state, next_state, splat_path, loaded_splats,
                 splat_commands, drop_events, loader_ran >>

\* the state of the picker, the car and the camera
drive_vars == << keyboard, mouse_button, cursor_ray, time, ground_plane,
                selection_state, markers, marker_commands, car,
                car_transform, camera_transform, pc, selection_ran >>

vars == << keyboard, mouse_button, cursor_ray, time, ground_plane,
           selection_state, markers, marker_commands, car, car_transform,
           camera_transform, pc, selection_ran, frame, load_state,
           next_state, splat_path, loaded_splats, splat_commands,
           drop_events, loader_ran >>

----------------------------------------------------------------------------
(* Fixed-point f32 *)

Scale == 10 ^ 4

NaN == 0 - 2 ^ 30

\* +inf; -inf is 0 - Inf.  Every finite value lies strictly between the two,
\* so the integer order is the f32 order.  The model has one zero, +0.0.
Inf == 2 ^ 30 - 1

IsInf(a) == a = Inf \/ a = 0 - Inf

Abs(a) == IF a < 0 THEN 0 - a ELSE a

Sgn(a) == IF a < 0 THEN 0 - 1 ELSE 1

\* |a * b| / Scale, truncated, for a, b >= 0: the four partial products of
\* the whole and the fractional parts, so that nothing leaves 32 bits
\* unless the result does
MulMag(a, b) ==
    LET ah == a \div Scale
        al == a % Scale
        bh == b \div Scale
        bl == b % Scale
    IN  ah * bh * Scale + ah * bl + al * bh + (al * bl) \div Scale

\* |a| * Scale / |b|, truncated, for a >= 0, b > 0 without leaving 32 bits:
\* long division, one decimal digit of the quotient at a time
DivMag(a, b) ==
    LET q  == a \div b
        r1 == (a % b) * 10
        r2 == (r1 % b) * 10
        r3 == (r2 % b) * 10
        r4 == (r3 % b) * 10
    IN  q * Scale + (r1 \div b) * 1000 + (r2 \div b) * 100
          + (r3 \div b) * 10 + r4 \div b

\* inf + (-inf) is NaN
FAdd(a, b) ==
    IF a = NaN \/ b = NaN THEN NaN
    ELSE IF IsInf(a) THEN (IF b = 0 - a THEN NaN ELSE a)
    ELSE IF IsInf(b) THEN b
    ELSE a + b

FNeg(a) == IF a = NaN THEN NaN ELSE 0 - a

FSub(a, b) == FAdd(a, FNeg(b))

\* inf * 0 is NaN
FMul(a, b) ==
    IF a = NaN \/ b = NaN THEN NaN
    ELSE IF IsInf(a) \/ IsInf(b)
         THEN (IF a = 0 \/ b = 0 THEN NaN ELSE Sgn(a) * Sgn(b) * Inf)
    ELSE Sgn(a) * Sgn(b) * MulMag(Abs(a), Abs(b))

\* a / b: 0/0 and inf/inf are NaN, x/0 is an infinity of the sign of x,
\* x/inf is 0
FDiv(a, b) ==
    IF a = NaN \/ b = NaN THEN NaN
    ELSE IF IsInf(a)
         THEN (IF IsInf(b) THEN NaN ELSE Sgn(a) * Sgn(b) * Inf)
    ELSE IF IsInf(b) THEN 0
    ELSE IF b = 0 THEN (IF a = 0 THEN NaN ELSE Sgn(a) * Inf)
    ELSE Sgn(a) * Sgn(b) * DivMag(Abs(a), Abs(b))

FAbs(a) == IF a = NaN THEN NaN ELSE Abs(a)

\* IEEE comparisons: FALSE whenever an operand is NaN
FLt(a, b) == a # NaN /\ b # NaN /\ a < b

FGt(a, b) == a # NaN /\ b # NaN /\ a > b

FEq(a, b) == a # NaN /\ b # NaN /\ a = b

\* f32::signum: 1.0 for +0.0 and positive values, -1.0 for negative ones
Signum(a) == IF a = NaN THEN NaN ELSE IF a < 0 THEN 0 - Scale ELSE Scale

\* f32::clamp(lo, hi); NaN stays NaN
Clamp(a, lo, hi) ==
    IF a = NaN THEN NaN ELSE IF a < lo THEN lo ELSE IF a > hi THEN hi ELSE a

----------------------------------------------------------------------------
(* IEEE 754 binary32, the arithmetic of the picker's Vec3 values: every     *)
(* operation gives the f32 nearest to its exact result, a tie going to the  *)
(* even mantissa.                                                           *)

\* A finite f32 is << m, e >>, the value m * 2^e, with 2^23 <= |m| < 2^24
\* and -149 <= e <= 104, or with |m| < 2^23 and e = -149 (the subnormal
\* values and zero).  The two zeros of f32 are the one zero << 0, -149 >>:
\* they compare equal and no operation of the picker divides by a zero.  The
\* infinities are << 1, 128 >> and << -1, 128 >>, NaN is << 0, 128 >>.
F32(m, e) == << m, e >>

F32Zero == F32(0, 0 - 149)

F32One == F32(2 ^ 23, 0 - 23)

F32NaN == F32(0, 128)

F32Inf(neg) == F32(IF neg THEN 0 - 1 ELSE 1, 128)

F32IsNaN(x) == x = F32NaN

F32IsInf(x) == x[2] = 128 /\ x[1] # 0

\* the number of binary digits of n >= 0
RECURSIVE BitLen(_)
BitLen(n) == IF n = 0 THEN 0 ELSE 1 + BitLen(n \div 2)

\* A natural number of up to 54 bits is the pair << hi, lo >> of words, the
\* number hi * 2^24 + lo with lo < 2^24.
WordsWidth(w) == IF w[1] > 0 THEN 24 + BitLen(w[1]) ELSE BitLen(w[2])

\* how the digits cut off compare with half a unit of the last place kept:
\* 1 above, 0 a tie, -1 below.  r is the leading word cut off, half the half
\* unit in it, below says that a nonzero digit follows r.
CutOff(r, half, below) ==
    IF r > half THEN 1 ELSE IF r < half THEN 0 - 1 ELSE IF below THEN 1 ELSE 0

\* round to nearest, ties to even
RoundUp(q, cut) == IF cut > 0 \/ (cut = 0 /\ q % 2 = 1) THEN q + 1 ELSE q

\* w / 2^d for d >= 1, rounded to an integer; sticky says that the exact
\* number had nonzero digits below w
ShiftRound(w, d, sticky) ==
    IF d <= 24
    THEN RoundUp(w[1] * 2 ^ (24 - d) + w[2] \div 2 ^ d,
                 CutOff(w[2] % 2 ^ d, 2 ^ (d - 1), sticky))
    ELSE IF d <= 54
    THEN RoundUp(w[1] \div 2 ^ (d - 24),
                 CutOff(w[1] % 2 ^ (d - 24), 2 ^ (d - 25), w[2] > 0 \/ sticky))
    ELSE 0

\* the f32 with the mantissa q at the exponent e: a mantissa that rounding
\* carried to 2^24 moves one exponent up, and past the largest finite value
\* the result is an infinity
Pack(neg, q, e) ==
    IF q = 0 THEN F32Zero
    ELSE IF q = 2 ^ 24
    THEN (IF e + 1 > 104 THEN F32Inf(neg)
          ELSE F32(IF neg THEN 0 - 2 ^ 23 ELSE 2 ^ 23, e + 1))
    ELSE IF e > 104 THEN F32Inf(neg)
    ELSE F32(IF neg THEN 0 - q ELSE q, e)

\* the f32 of w * 2^e with d digits cut off; d <= 0 shifts an exact
\* mantissa of fewer than 24 bits up instead
RoundCut(neg, w, e, sticky, d) ==
    IF d > 0 THEN Pack(neg, ShiftRound(w, d, sticky), e + d)
    ELSE Pack(neg, w[2] * 2 ^ (0 - d), e + d)

\* the f32 nearest to w * 2^e (negated if neg): 24 bits are kept, fewer
\* where the exponent would fall below -149
Round32(neg, w, e, sticky) ==
    RoundCut(neg, w, e, sticky,
             IF WordsWidth(w) - 24 >= 0 - 149 - e THEN WordsWidth(w) - 24
             ELSE 0 - 149 - e)

\* the f32 of the integer n, |n| < 2^24
F32Int(n) == Round32(n < 0, << 0, IF n < 0 THEN 0 - n ELSE n >>, 0, FALSE)

F32Neg(x) == F32(0 - x[1], x[2])

F32Abs(x) == F32(IF x[1] < 0 THEN 0 - x[1] ELSE x[1], x[2])

\* IEEE comparisons: FALSE whenever an operand is NaN
F32Lt(x, y) ==
    /\ ~F32IsNaN(x) /\ ~F32IsNaN(y)
    /\ IF x[1] < 0
       THEN y[1] >= 0 \/ x[2] > y[2] \/ (x[2] = y[2] /\ x[1] < y[1])
       ELSE y[1] > 0 /\ (x[2] < y[2] \/ (x[2] = y[2] /\ x[1] < y[1]))

F32Gt(x, y) == F32Lt(y, x)

\* the words of a * b for mantissas a, b < 2^24, from the products of
\* their 12-bit halves: mid is the sum of the two mixed products
ProductWords(a, b, mid) ==
    << (a \div 2 ^ 12) * (b \div 2 ^ 12) + mid \div 2 ^ 12
         + ((a % 2 ^ 12) * (b % 2 ^ 12) + (mid % 2 ^ 12) * 2 ^ 12)
             \div 2 ^ 24,
       ((a % 2 ^ 12) * (b % 2 ^ 12) + (mid % 2 ^ 12) * 2 ^ 12) % 2 ^ 24 >>

Product(a, b) ==
    ProductWords(a, b, (a \div 2 ^ 12) * (b % 2 ^ 12)
                         + (a % 2 ^ 12) * (b \div 2 ^ 12))

\* x * y: inf * 0 is NaN
F32Mul(x, y) ==
    IF F32IsNaN(x) \/ F32IsNaN(y) THEN F32NaN
    ELSE IF F32IsInf(x) \/ F32IsInf(y)
    THEN (IF x = F32Zero \/ y = F32Zero THEN F32NaN
          ELSE F32Inf((x[1] < 0) # (y[1] < 0)))
    ELSE Round32((x[1] < 0) # (y[1] < 0),
                 Product(F32Abs(x)[1], F32Abs(y)[1]), x[2] + y[2], FALSE)

\* the words of m * 2^shift + rest for 0 <= shift <= 25 and |rest| < 2^24,
\* the sum not negative
SumWords(hi, low) ==
    << hi - 1 + (low + 2 ^ 24) \div 2 ^ 24, (low + 2 ^ 24) % 2 ^ 24 >>

Aligned(m, shift, rest) ==
    IF shift <= 24
    THEN SumWords(m \div 2 ^ (24 - shift),
                  (m % 2 ^ (24 - shift)) * 2 ^ shift + rest)
    ELSE SumWords(m * 2 ^ (shift - 24), rest)

\* big + small for finite |big| >= |small|: a small operand more than 25
\* exponents down lies below a quarter of the last place of big and is
\* rounded away; otherwise the sum is formed exactly and rounded once
AddOrdered(big, small) ==
    IF big[2] - small[2] > 25 THEN big
    ELSE Round32(big[1] < 0,
                 Aligned(F32Abs(big)[1], big[2] - small[2],
                         IF (big[1] < 0) = (small[1] < 0)
                         THEN F32Abs(small)[1] ELSE 0 - F32Abs(small)[1]),
                 small[2], FALSE)

\* x + y: inf + (-inf) is NaN
F32Add(x, y) ==
    IF F32IsNaN(x) \/ F32IsNaN(y) THEN F32NaN
    ELSE IF F32IsInf(x) THEN (IF F32IsInf(y) /\ y # x THEN F32NaN ELSE x)
    ELSE IF F32IsInf(y) THEN y
    ELSE IF x[2] > y[2] \/ (x[2] = y[2] /\ F32Abs(x)[1] >= F32Abs(y)[1])
    THEN AddOrdered(x, y)
    ELSE AddOrdered(y, x)

F32Sub(x, y) == F32Add(x, F32Neg(y))

\* the mantissa m > 0 at the exponent e with its leading bit moved to bit
\* 23, whatever the exponent becomes: << mantissa, exponent >>
Normalized(m, e, width) == << m * 2 ^ (24 - width), e - (24 - width) >>

\* << quotient, remainder >> of r * 2^(5 * steps) + ... by n: long
\* division, five bits of the quotient at a time
RECURSIVE LongDiv(_, _, _, _)
LongDiv(r, n, q, steps) ==
    IF steps = 0 THEN << q, r >>
    ELSE LongDiv((r * 32) % n, n, q * 32 + (r * 32) \div n, steps - 1)

\* the f32 of qr[1] * 2^e, qr the quotient of 26 bits at most and the
\* remainder of a division
RoundQuotient(neg, qr, e) ==
    Round32(neg, << qr[1] \div 2 ^ 24, qr[1] % 2 ^ 24 >>, e, qr[2] # 0)

\* a / b for normalized a, b: the quotient a * 2^25 / b has 25 or 26 bits
DivNormalized(neg, a, b) ==
    RoundQuotient(neg, LongDiv(a[1] % b[1], b[1], a[1] \div b[1], 5),
                  a[2] - b[2] - 25)

\* x / y: 0/0 and inf/inf are NaN, x/0 is an infinity, x/inf is 0
F32Div(x, y) ==
    IF F32IsNaN(x) \/ F32IsNaN(y) THEN F32NaN
    ELSE IF F32IsInf(x)
    THEN (IF F32IsInf(y) THEN F32NaN ELSE F32Inf((x[1] < 0) # (y[1] < 0)))
    ELSE IF F32IsInf(y) THEN F32Zero
    ELSE IF y = F32Zero
    THEN (IF x = F32Zero THEN F32NaN ELSE F32Inf(x[1] < 0))
    ELSE IF x = F32Zero THEN F32Zero
    ELSE DivNormalized((x[1] < 0) # (y[1] < 0),
                       Normalized(F32Abs(x)[1], x[2], BitLen(F32Abs(x)[1])),
                       Normalized(F32Abs(y)[1], y[2], BitLen(F32Abs(y)[1])))

\* the words of s * s for s < 2^26, in words of 26 bits (hi * 2^26 + lo),
\* from the 13-bit halves of s: w is the low part of the mixed product and
\* the low square
SquareWords(s, w) ==
    << (s \div 2 ^ 13) * (s \div 2 ^ 13)
         + (2 * (s \div 2 ^ 13) * (s % 2 ^ 13)) \div 2 ^ 13 + w \div 2 ^ 26,
       w % 2 ^ 26 >>

Square(s) ==
    SquareWords(s, ((2 * (s \div 2 ^ 13) * (s % 2 ^ 13)) % 2 ^ 13) * 2 ^ 13
                     + (s % 2 ^ 13) * (s % 2 ^ 13))

\* sq <= n * 2^26
SquareWithin(sq, n) == sq[1] < n \/ (sq[1] = n /\ sq[2] = 0)

\* the largest s in lo..hi with s * s <= n * 2^26
RECURSIVE RootSearch(_, _, _)
RootSearch(n, lo, hi) ==
    IF lo >= hi THEN lo
    ELSE IF SquareWithin(Square((lo + hi + 1) \div 2), n)
    THEN RootSearch(n, (lo + hi + 1) \div 2, hi)
    ELSE RootSearch(n, lo, (lo + hi + 1) \div 2 - 1)

\* the f32 of the root s of n * 2^26 at the exponent e
RoundRoot(s, n, e) ==
    Round32(FALSE, << s \div 2 ^ 24, s % 2 ^ 24 >>, e,
            Square(s) # << n, 0 >>)

\* sqrt(n * 2^e) for e even and 2^23 <= n < 2^25
SqrtEven(n, e) == RoundRoot(RootSearch(n, 2 ^ 24, 2 ^ 26 - 1), n, (e - 26) \div 2)

\* sqrt of a normalized a: an odd exponent gives one bit to the mantissa
SqrtNormalized(a) ==
    IF (a[2] + 200) % 2 = 1 THEN SqrtEven(2 * a[1], a[2] - 1)
    ELSE SqrtEven(a[1], a[2])

\* f32::sqrt: NaN below zero
F32Sqrt(x) ==
    IF F32IsNaN(x) \/ x[1] < 0 THEN F32NaN
    ELSE IF F32IsInf(x) \/ x = F32Zero THEN x
    ELSE SqrtNormalized(Normalized(x[1], x[2], BitLen(x[1])))

\* the f32 of the decimal a / Scale for an integer |a| < 2^24: what a
\* literal of up to four decimals is compiled to
Dec(a) == F32Div(F32Int(a), F32Int(Scale))

----------------------------------------------------------------------------
(* glam Vec3 *)

Vec3(x, y, z) == << x, y, z >>

VecZero == Vec3(0, 0, 0)

VecX == Vec3(Scale, 0, 0)

VecY == Vec3(0, Scale, 0)

VecNaN == Vec3(NaN, NaN, NaN)

VAdd(a, b) == Vec3(FAdd(a[1], b[1]), FAdd(a[2], b[2]), FAdd(a[3], b[3]))

VSub(a, b) == Vec3(FSub(a[1], b[1]), FSub(a[2], b[2]), FSub(a[3], b[3]))

VNeg(a) == Vec3(FNeg(a[1]), FNeg(a[2]), FNeg(a[3]))

VScale(a, s) == Vec3(FMul(a[1], s), FMul(a[2], s), FMul(a[3], s))

VDot(a, b) == FAdd(FAdd(FMul(a[1], b[1]), FMul(a[2], b[2])), FMul(a[3], b[3]))

VIsNaN(a) == a[1] = NaN \/ a[2] = NaN \/ a[3] = NaN

\* Vec3::lerp: a + (b - a) * s
VLerp(a, b, s) == VAdd(a, VScale(VSub(b, a), s))

\* the number of units of Scale nearest to the f32 x: how the car's
\* fixed-point arithmetic reads a value of the plane.  A finite x is
\* |m| * 625 * 2^(e + 4) units.  No arm from 2^16 = 65536.0 on, where the
\* fixed-point numbers end.
Fixed(x) ==
    CASE F32IsNaN(x) -> NaN
      [] F32IsInf(x) -> (IF x[1] < 0 THEN 0 - Inf ELSE Inf)
      [] x[2] <= 0 - 8 ->
            (IF x[1] < 0 THEN 0 - 1 ELSE 1)
              * ShiftRound(Product(F32Abs(x)[1], 625), 0 - x[2] - 4, FALSE)

----------------------------------------------------------------------------
(* glam Vec3 of the picker, in binary32 *)

V32Zero == << F32Zero, F32Zero, F32Zero >>

V32Y == << F32Zero, F32One, F32Zero >>

\* the f32 vector of the fixed-point vector a: each component the f32
\* nearest to the decimal
Vec32(a) == << Dec(a[1]), Dec(a[2]), Dec(a[3]) >>

VFixed(a) == Vec3(Fixed(a[1]), Fixed(a[2]), Fixed(a[3]))

V32Add(a, b) == << F32Add(a[1], b[1]), F32Add(a[2], b[2]), F32Add(a[3], b[3]) >>

V32Sub(a, b) == << F32Sub(a[1], b[1]), F32Sub(a[2], b[2]), F32Sub(a[3], b[3]) >>

V32Neg(a) == << F32Neg(a[1]), F32Neg(a[2]), F32Neg(a[3]) >>

\* Vec3 * f32
V32Scale(a, s) == << F32Mul(a[1], s), F32Mul(a[2], s), F32Mul(a[3], s) >>

\* Vec3::dot: (x * x) + (y * y) + (z * z), each product and each sum rounded
V32Dot(a, b) ==
    F32Add(F32Add(F32Mul(a[1], b[1]), F32Mul(a[2], b[2])), F32Mul(a[3], b[3]))

\* Vec3::cross
V32Cross(a, b) ==
    << F32Sub(F32Mul(a[2], b[3]), F32Mul(b[2], a[3])),
       F32Sub(F32Mul(a[3], b[1]), F32Mul(b[3], a[1])),
       F32Sub(F32Mul(a[1], b[2]), F32Mul(b[1], a[2])) >>

V32IsNaN(a) == F32IsNaN(a[1]) \/ F32IsNaN(a[2]) \/ F32IsNaN(a[3])

\* Vec3::length: sqrt(dot(self, self))
V32Length(a) == F32Sqrt(V32Dot(a, a))

\* Vec3::length_recip: 1.0 / length
V32LengthRecip(a) == F32Div(F32One, V32Length(a))

\* Vec3::normalize: self * length_recip (no glam assertion is compiled in by
\* default).  The zero vector gives 0 * inf = NaN in every component.
V32Normalize(a) == V32Scale(a, V32LengthRecip(a))

----------------------------------------------------------------------------
(* f32 sin, cos: Taylor polynomials after reduction to [0, pi/2] *)

SinPoly(x) ==
    LET x2 == FMul(x, x)
        x3 == FMul(x2, x)
        x5 == FMul(x3, x2)
        x7 == FMul(x5, x2)
        x9 == FMul(x7, x2)
    IN  x - x3 \div 6 + x5 \div 120 - x7 \div 5040 + x9 \div 362880

CosPoly(x) ==
    LET x2  == FMul(x, x)
        x4  == FMul(x2, x2)
        x6  == FMul(x4, x2)
        x8  == FMul(x6, x2)
        x10 == FMul(x8, x2)
    IN  Scale - x2 \div 2 + x4 \div 24 - x6 \div 720 + x8 \div 40320
          - x10 \div 3628800

Sin(a) ==
    IF a = NaN \/ IsInf(a) THEN NaN
    ELSE LET pi == 31416
             m  == a % (2 * pi)
         IN  IF m <= pi \div 2 THEN SinPoly(m)
             ELSE IF m <= pi THEN SinPoly(pi - m)
             ELSE IF m <= pi + pi \div 2 THEN 0 - SinPoly(m - pi)
             ELSE 0 - SinPoly(2 * pi - m)

Cos(a) ==
    IF a = NaN \/ IsInf(a) THEN NaN
    ELSE LET pi == 31416
             m  == a % (2 * pi)
         IN  IF m <= pi \div 2 THEN CosPoly(m)
             ELSE IF m <= pi THEN 0 - CosPoly(pi - m)
             ELSE IF m <= pi + pi \div 2 THEN 0 - CosPoly(m - pi)
             ELSE CosPoly(2 * pi - m)

----------------------------------------------------------------------------
(* ground_plane.rs: GroundPlane *)

GroundPlane(origin, normal, up, is_selected) ==
    [origin |-> origin, normal |-> normal, up |-> up,
     is_selected |-> is_selected]

\* Vec3::ZERO, Vec3::Y, Vec3::Y, false
GroundPlaneDefault == GroundPlane(V32Zero, V32Y, V32Y, FALSE)

\* GroundPlane { origin, normal, up: normal, is_selected: true }
PlaneThrough(origin, normal) == GroundPlane(origin, normal, normal, TRUE)

\* if normal.y < 0.0 { -normal } else { normal }: the test is made on the
\* normalised f32 component, and a NaN fails it
FaceUp(normal) == IF F32Lt(normal[2], F32Zero) THEN V32Neg(normal) ELSE normal

\* only the y component of a downward normal is negated
MirrorUp(normal) ==
    IF F32Lt(normal[2], F32Zero)
    THEN << normal[1], F32Neg(normal[2]), normal[3] >>
    ELSE normal

\* mutant: the normal is not turned to face up
from_three_points_unflipped(p1, p2, p3) ==
    PlaneThrough(p1, V32Normalize(V32Cross(V32Sub(p2, p1), V32Sub(p3, p1))))
\* mutant: only the y component of a downward normal is negated
from_three_points_mirrored(p1, p2, p3) ==
    PlaneThrough(p1, MirrorUp(V32Normalize(V32Cross(V32Sub(p2, p1),
                                                    V32Sub(p3, p1)))))

\* v1 = p2 - p1, v2 = p3 - p1, normal = v1.cross(v2).normalize(), turned to
\* face up: every step in f32, so that the flip and a NaN are decided on the
\* numbers the code decides them on
from_three_points(p1, p2, p3) ==
    PlaneThrough(p1, FaceUp(V32Normalize(V32Cross(V32Sub(p2, p1),
                                                  V32Sub(p3, p1)))))

\* the plane as the car's fixed-point arithmetic reads it: every component
\* rounded to the nearest unit of Scale
PlaneFixed(plane) ==
    GroundPlane(VFixed(plane.origin), VFixed(plane.normal), VFixed(plane.up),
                plane.is_selected)

\* mutant: the distance is measured from the world origin
project_point_from_zero(plane, point) ==
    LET distance == VDot(point, plane.normal)
    IN  VSub(point, VScale(plane.normal, distance))

project_point(plane, point) ==
    LET to_point == VSub(point, plane.origin)
        distance == VDot(to_point, plane.normal)
    IN  VSub(point, VScale(plane.normal, distance))

height_at(plane, point) == VDot(VSub(point, plane.origin), plane.normal)

----------------------------------------------------------------------------
(* ground_plane.rs: handle_plane_selection *)

Ray3d(origin, direction) == [origin |-> origin, direction |-> direction]

PlaneSelectionMarker(translation, index) ==
    [translation |-> translation, index |-> index]

\* What one run of the system reads and writes besides its inputs.  markers
\* is what the Query iterates: the entities of the world when the system
\* runs, which the system itself never changes.  commands is its Commands
\* queue.
Picker(active, points, plane, marks, commands) ==
    [active |-> active, points |-> points, plane |-> plane, markers |-> marks,
     commands |-> commands]

\* for entity in markers.iter() { commands.entity(entity).despawn() }
despawn_markers(ps) ==
    ps.commands \o [i \in 1..Len(ps.markers) |->
                       [op |-> "despawn", marker |-> ps.markers[i]]]

\* mutant: entering the mode also puts the default plane back
toggle_selection_resets_plane(ps, kb) ==
    IF "KeyP" \in kb.just_pressed
    THEN IF ~ps.active
         THEN Picker(TRUE, << >>, GroundPlaneDefault, ps.markers,
                     despawn_markers(ps))
         ELSE Picker(FALSE, ps.points, ps.plane, ps.markers, ps.commands)
    ELSE ps

\* 'P' just pressed: flip the mode; entering it clears the points and queues
\* the despawn of every marker
toggle_selection(ps, kb) ==
    IF "KeyP" \in kb.just_pressed
    THEN IF ~ps.active
         THEN Picker(TRUE, << >>, ps.plane, ps.markers, despawn_markers(ps))
         ELSE Picker(FALSE, ps.points, ps.plane, ps.markers, ps.commands)
    ELSE ps

\* mutant: the reset clears the session but keeps the plane
reset_plane_keeps_plane(ps, kb) ==
    IF "KeyR" \in kb.just_pressed
    THEN Picker(ps.active, << >>, ps.plane, ps.markers, despawn_markers(ps))
    ELSE ps

\* 'R' just pressed: default plane, no points, the despawn of every marker
\* queued
reset_plane(ps, kb) ==
    IF "KeyR" \in kb.just_pressed
    THEN Picker(ps.active, << >>, GroundPlaneDefault, ps.markers,
                despawn_markers(ps))
    ELSE ps

\* the literal 0.0001 as an f32
Epsilon == Dec(1)

\* if t > 0.0 { hit_point = ray.origin + *ray.direction * t }
HitAt(ray, t) ==
    IF F32Gt(t, F32Zero)
    THEN << V32Add(ray.origin, V32Scale(ray.direction, t)) >>
    ELSE << >>

\* the point at t along the ray, ahead of its origin or behind it
HitAtAny(ray, t) ==
    IF F32IsNaN(t) THEN << >>
    ELSE << V32Add(ray.origin, V32Scale(ray.direction, t)) >>

\* if denom.abs() > 0.0001 { t = (plane_origin - ray.origin).dot(plane_normal)
\* / denom; .. }
HitOff(plane, ray, denom) ==
    IF F32Gt(F32Abs(denom), Epsilon)
    THEN HitAt(ray, F32Div(V32Dot(V32Sub(plane.origin, ray.origin),
                                  plane.normal), denom))
    ELSE << >>

HitOffAny(plane, ray, denom) ==
    IF F32Gt(F32Abs(denom), Epsilon)
    THEN HitAtAny(ray, F32Div(V32Dot(V32Sub(plane.origin, ray.origin),
                                     plane.normal), denom))
    ELSE << >>

\* mutant: an intersection behind the ray origin is accepted
ray_hit_behind(plane, ray) ==
    HitOffAny(plane, ray, V32Dot(plane.normal, ray.direction))

\* The ray/plane intersection of a click: << >> (ignored) or << hit_point >>.
\* denom = plane_normal.dot(ray.direction) is compared with 0.0001 and t with
\* 0.0 as f32 values, and the hit point is rounded as the code rounds it: it
\* lies on the plane up to that rounding.  A NaN denom or t fails its
\* comparison.
ray_hit(plane, ray) == HitOff(plane, ray, V32Dot(plane.normal, ray.direction))

\* an accepted hit: push the point, queue the spawn of its marker, fit the
\* plane at 3
accept_hit(ps, hit_point) ==
    LET points == Append(ps.points, hit_point)
        queue  == Append(ps.commands,
                         [op |-> "spawn",
                          marker |-> PlaneSelectionMarker(hit_point,
                                                          Len(points))])
    IN  IF Len(points) >= 3
        THEN Picker(FALSE, points,
                    from_three_points(points[1], points[2], points[3]),
                    ps.markers, queue)
        ELSE Picker(ps.active, points, ps.plane, ps.markers, queue)

\* mutant: no early return when the mode is inactive
select_point_always(ps, mb, cursor) ==
    IF mb /\ cursor # << >>
    THEN LET hit == ray_hit(ps.plane, cursor[1])
         IN  IF hit # << >> THEN accept_hit(ps, hit[1]) ELSE ps
    ELSE ps

\* the mouse part of the system, after the early return when inactive
select_point(ps, mb, cursor) ==
    IF ~ps.active THEN ps
    ELSE IF mb /\ cursor # << >>
         THEN LET hit == ray_hit(ps.plane, cursor[1])
              IN  IF hit # << >> THEN accept_hit(ps, hit[1]) ELSE ps
         ELSE ps

plane_selection(ps, kb, mb, cursor) ==
    select_point(reset_plane(toggle_selection(ps, kb), kb), mb, cursor)

\* The system changes the session and the plane itself; the marker entities
\* it only queues commands for (lines 107-109, 119-121, 155-164).
handle_plane_selection ==
    /\ ~selection_ran
    /\ LET ps == plane_selection(
                     Picker(selection_state.active, selection_state.points,
                            ground_plane, markers, << >>),
                     keyboard, mouse_button, cursor_ray)
       IN  /\ selection_state' = [points |-> ps.points, active |-> ps.active]
           /\ ground_plane' = ps.plane
           /\ marker_commands' = ps.commands
    /\ selection_ran' = TRUE
    /\ UNCHANGED << keyboard, mouse_button, cursor_ray, time, markers, car,
                    car_transform, camera_transform, pc, frame,
                    loader_vars >>

\* the marker entities after the queued commands, applied in order.  A
\* despawn removes the entity it names; the entities alive together differ
\* in index or position or are despawned together, so the record names it.
RECURSIVE apply_marker_commands(_, _)
apply_marker_commands(marks, commands) ==
    IF commands = << >> THEN marks
    ELSE LET c == Head(commands)
         IN  CASE c.op = "despawn" ->
                      apply_marker_commands(
                          SelectSeq(marks, LAMBDA m : m # c.marker),
                          Tail(commands))
               [] c.op = "spawn" ->
                      apply_marker_commands(Append(marks, c.marker),
                                            Tail(commands))

\* The picker is ordered with no other system and no system of the car
\* chain has Commands, so the schedule has no sync point for them: the
\* queue is applied when Update has run all its systems.
apply_picker_deferred ==
    /\ pc = "done"
    /\ selection_ran
    /\ marker_commands # << >>
    /\ markers' = apply_marker_commands(markers, marker_commands)
    /\ marker_commands' = << >>
    /\ UNCHANGED << keyboard, mouse_button, cursor_ray, time, ground_plane,
                    selection_state, car, car_transform, camera_transform,
                    pc, selection_ran, frame, loader_vars >>

----------------------------------------------------------------------------
(* car.rs: CarPlugin, Car, handle_car_input *)
\* mutant: the camera is scheduled before the pose advancement
chain_camera_before_physics ==
    << "handle_car_input", "update_camera_follow", "update_car_physics" >>

\* CarPlugin::build: the three Update systems of the car, chained
chain == << "handle_car_input", "update_car_physics", "update_camera_follow" >>

\* the system the schedule runs after the system s of the chain, "done" after
\* the last one
next_system(s) ==
    LET i == CHOOSE k \in 1..Len(chain) : chain[k] = s
    IN  IF i < Len(chain) THEN chain[i + 1] ELSE "done"

max_speed == 300000

acceleration == 150000

brake_power == 250000

friction == 50000

max_steering == 6000

steering_speed == 30000

wheelbase == 20000

Car(velocity, steering) == [velocity |-> velocity, steering |-> steering]

Pressed(kb, a, b) == a \in kb.pressed \/ b \in kb.pressed

\* W / Up
accelerate(v, kb, dt) ==
    IF Pressed(kb, "KeyW", "ArrowUp") THEN FAdd(v, FMul(acceleration, dt))
    ELSE v

\* S / Down: brake while moving forward, else reverse at half acceleration
brake(v, kb, dt) ==
    IF Pressed(kb, "KeyS", "ArrowDown")
    THEN IF FGt(v, 0) THEN FSub(v, FMul(brake_power, dt))
         ELSE FSub(v, FMul(FMul(acceleration, 5000), dt))
    ELSE v

steering_input(kb) ==
    IF Pressed(kb, "KeyA", "ArrowLeft") THEN Scale
    ELSE IF Pressed(kb, "KeyD", "ArrowRight") THEN 0 - Scale
    ELSE 0

\* mutant: the steering branch does not clamp
steer_unclamped(s, kb, dt) ==
    IF steering_input(kb) # 0
    THEN FAdd(s, FMul(FMul(steering_input(kb), steering_speed), dt))
    ELSE LET return_speed == FMul(FMul(steering_speed, 2 * Scale), dt)
         IN  IF FLt(FAbs(s), return_speed) THEN 0
             ELSE FSub(s, FMul(Signum(s), return_speed))
\* mutant: the relaxation never snaps to zero
steer_no_snap(s, kb, dt) ==
    IF steering_input(kb) # 0
    THEN Clamp(FAdd(s, FMul(FMul(steering_input(kb), steering_speed), dt)),
               0 - max_steering, max_steering)
    ELSE FSub(s, FMul(Signum(s), FMul(FMul(steering_speed, 2 * Scale), dt)))

steer(s, kb, dt) ==
    IF steering_input(kb) # 0
    THEN Clamp(FAdd(s, FMul(FMul(steering_input(kb), steering_speed), dt)),
               0 - max_steering, max_steering)
    ELSE LET return_speed == FMul(FMul(steering_speed, 2 * Scale), dt)
         IN  IF FLt(FAbs(s), return_speed) THEN 0
             ELSE FSub(s, FMul(Signum(s), return_speed))
\* mutant: friction acts whatever keys are held
apply_friction_always(v, kb, dt) ==
    LET friction_decel == FMul(friction, dt)
    IN  IF FLt(FAbs(v), friction_decel) THEN 0
        ELSE FSub(v, FMul(Signum(v), friction_decel))
\* mutant: the decay never snaps to zero
apply_friction_no_snap(v, kb, dt) ==
    IF ~Pressed(kb, "KeyW", "ArrowUp") /\ ~Pressed(kb, "KeyS", "ArrowDown")
    THEN FSub(v, FMul(Signum(v), FMul(friction, dt)))
    ELSE v

apply_friction(v, kb, dt) ==
    IF ~Pressed(kb, "KeyW", "ArrowUp") /\ ~Pressed(kb, "KeyS", "ArrowDown")
    THEN LET friction_decel == FMul(friction, dt)
         IN  IF FLt(FAbs(v), friction_decel) THEN 0
             ELSE FSub(v, FMul(Signum(v), friction_decel))
    ELSE v

\* mutant: the reverse limit is the forward limit
clamp_velocity_symmetric(v) == Clamp(v, 0 - max_speed, max_speed)

clamp_velocity(v) == Clamp(v, FMul(0 - max_speed, 3000), max_speed)

car_input(c, kb, dt) ==
    Car(clamp_velocity(
            apply_friction(brake(accelerate(c.velocity, kb, dt), kb, dt),
                           kb, dt)),
        steer(c.steering, kb, dt))

handle_car_input ==
    /\ pc = "handle_car_input"
    /\ car' = car_input(car, keyboard, time)
    /\ pc' = next_system("handle_car_input")
    /\ UNCHANGED << keyboard, mouse_button, cursor_ray, time, ground_plane,
                    selection_state, markers, marker_commands, car_transform,
                    camera_transform, selection_ran, frame,
                    loader_vars >>

----------------------------------------------------------------------------
(* car.rs: update_car_physics, update_camera_follow *)

(* The car's Transform.rotation is Ry(yaw) * Rz(-tilt): a yaw about the      *)
(* world Y axis after a tilt that leans the up axis away from world Y by     *)
(* the angle tilt, both in radians (or NaN).  The orientation starts as the  *)
(* identity, is turned about ground_plane.up and is realigned toward         *)
(* ground_plane.normal; for a plane whose up and normal are the world Y axis *)
(* both keep the rotation in this form.                                      *)
Quat(yaw, tilt) == [yaw |-> yaw, tilt |-> tilt]

QuatIdentity == Quat(0, 0)

QuatNaN == Quat(NaN, NaN)

Transform(translation, rotation) ==
    [translation |-> translation, rotation |-> rotation]

\* Transform::forward: rotation * -Z (the tilt is about Z and leaves -Z alone)
Forward(rotation) ==
    IF rotation.yaw = NaN \/ rotation.tilt = NaN THEN VecNaN
    ELSE Vec3(0 - Sin(rotation.yaw), 0, 0 - Cos(rotation.yaw))

\* Transform::back: rotation * Z
Back(rotation) == VNeg(Forward(rotation))

\* Transform::up: rotation * Y
Up(rotation) ==
    IF rotation.yaw = NaN \/ rotation.tilt = NaN THEN VecNaN
    ELSE Vec3(FMul(Sin(rotation.tilt), Cos(rotation.yaw)),
              Cos(rotation.tilt),
              FNeg(FMul(Sin(rotation.tilt), Sin(rotation.yaw))))

\* Quat::from_axis_angle(axis, angle) * rotation.  No arm for an axis other
\* than the world Y axis or NaN: TLC stops if the picker ever installs one.
turn(rotation, axis, angle) ==
    CASE VIsNaN(axis) -> QuatNaN
      [] axis = VecY  -> Quat(FAdd(rotation.yaw, angle), rotation.tilt)

\* f32::tan as sin / cos.  The program takes the tangent of the steering
\* angle only, which handle_car_input keeps within max_steering of zero;
\* there the quotient is within two units of Scale of the f32 value.  No
\* arm for an angle further out: toward pi/2 the f32 value depends on
\* digits of the angle far below one unit of Scale.
Tan(a) ==
    CASE a = NaN -> NaN
      [] a # NaN /\ Abs(a) <= max_steering -> FDiv(Sin(a), Cos(a))

\* the angle a brought into [-pi, pi): the signed length of the shortest
\* arc that leans the up axis by a
WrapAngle(a) ==
    LET pi == 31416
    IN  ((a + pi) % (2 * pi)) - pi

\* line 258: current_up.dot(target_up) < 0.999.  Against the world Y axis
\* the dot product is the cosine of the lean, and acos(0.999) = 0.044725
\* lies between two neighbouring angles of the model: the comparison holds
\* from a lean of 0.0448 on.  A NaN on either side makes it false.  No arm
\* for a target other than the world Y axis or NaN.
off_normal(rotation, target_up) ==
    CASE rotation.yaw = NaN \/ rotation.tilt = NaN \/ VIsNaN(target_up) ->
            FALSE
      [] rotation.yaw # NaN /\ rotation.tilt # NaN /\ target_up = VecY ->
            Abs(WrapAngle(rotation.tilt)) >= 448

\* lines 255-264: the slerp toward the plane normal runs only when the dot
\* product is below 0.999.  Quat::from_rotation_arc(current_up, target_up) is
\* the turn along the shortest arc between the two axes, here the wrapped
\* tilt, about their common normal, and Quat::IDENTITY.slerp(align, s) is
\* the turn by s times that arc about the same axis; s = 10 * dt is not
\* clamped.  The operator is defined for leans up to 0.02 rad short of half
\* a turn (dot >= -0.9998) and has no arm beyond.  Where the two axes are
\* opposite (dot < -0.99999976, a lean within 0.0007 of half a turn)
\* from_rotation_arc takes its 180-degree branch, a half turn about
\* current_up.any_orthonormal_vector(): the result is a rotation that no
\* Quat(yaw, tilt) stands for.  Just short of that the arc is read off
\* 1 + dot, a difference of nearly equal f32 numbers, and the rounding of the
\* dot product moves the turn by more than a unit of Scale.
align_up(rotation, target_up, dt) ==
    IF off_normal(rotation, target_up)
    THEN LET arc == WrapAngle(rotation.tilt)
             s   == FMul(100000, dt)
         IN  CASE Abs(arc) <= 31216 ->
                    Quat(rotation.yaw, FSub(arc, FMul(s, arc)))
    ELSE rotation
\* mutant: no early return for a car at rest
car_physics_at_rest(c, tf, plane, dt) ==
    LET forward == Forward(tf.rotation)
        rotation1 ==
            IF FGt(FAbs(c.steering), 10)
            THEN LET turning_radius == FDiv(wheelbase, Tan(c.steering))
                     angular_velocity == FDiv(c.velocity, turning_radius)
                 IN  turn(tf.rotation, plane.up, FMul(angular_velocity, dt))
            ELSE tf.rotation
        displacement == VScale(VScale(forward, c.velocity), dt)
        moved == VAdd(tf.translation, displacement)
        projected == project_point(plane, moved)
        rotation2 == align_up(rotation1, plane.normal, dt)
    IN  Transform(VAdd(projected, VScale(plane.normal, 5000)), rotation2)
\* mutant: the forward axis is read after the turn
car_physics_turn_first(c, tf, plane, dt) ==
    IF FLt(FAbs(c.velocity), 10) THEN tf
    ELSE LET rotation1 ==
                 IF FGt(FAbs(c.steering), 10)
                 THEN LET turning_radius == FDiv(wheelbase, Tan(c.steering))
                          angular_velocity == FDiv(c.velocity, turning_radius)
                      IN  turn(tf.rotation, plane.up,
                               FMul(angular_velocity, dt))
                 ELSE tf.rotation
             forward == Forward(rotation1)
             displacement == VScale(VScale(forward, c.velocity), dt)
             moved == VAdd(tf.translation, displacement)
             projected == project_point(plane, moved)
             rotation2 == align_up(rotation1, plane.normal, dt)
         IN  Transform(VAdd(projected, VScale(plane.normal, 5000)), rotation2)

car_physics(c, tf, plane, dt) ==
    IF FLt(FAbs(c.velocity), 10) THEN tf
    ELSE LET forward == Forward(tf.rotation)
             rotation1 ==
                 IF FGt(FAbs(c.steering), 10)
                 THEN LET turning_radius == FDiv(wheelbase, Tan(c.steering))
                          angular_velocity == FDiv(c.velocity, turning_radius)
                      IN  turn(tf.rotation, plane.up,
                               FMul(angular_velocity, dt))
                 ELSE tf.rotation
             displacement == VScale(VScale(forward, c.velocity), dt)
             moved == VAdd(tf.translation, displacement)
             projected == project_point(plane, moved)
             rotation2 == align_up(rotation1, plane.normal, dt)
         IN  Transform(VAdd(projected, VScale(plane.normal, 5000)), rotation2)

update_car_physics ==
    /\ pc = "update_car_physics"
    /\ car_transform' = car_physics(car, car_transform, PlaneFixed(ground_plane),
                                  time)
    /\ pc' = next_system("update_car_physics")
    /\ UNCHANGED << keyboard, mouse_button, cursor_ray, time, ground_plane,
                    selection_state, markers, marker_commands,
                    car, camera_transform,
                    selection_ran, frame,
                    loader_vars >>

\* the camera's Transform: its translation and the point look_at turned it to
CameraTransform(translation, look_target) ==
    [translation |-> translation, look_target |-> look_target]

camera_follow(cam, tf, dt) ==
    LET offset == Vec3(0, 50000, 120000)
        target_position ==
            VAdd(VAdd(tf.translation, VScale(Back(tf.rotation), offset[3])),
                 VScale(Up(tf.rotation), offset[2]))
        look_target == VAdd(tf.translation, VScale(Forward(tf.rotation), 50000))
    IN  CameraTransform(
            VLerp(cam.translation, target_position, FMul(50000, dt)),
            look_target)

update_camera_follow ==
    /\ pc = "update_camera_follow"
    /\ camera_transform' = camera_follow(camera_transform, car_transform, time)
    /\ pc' = next_system("update_camera_follow")
    /\ UNCHANGED << keyboard, mouse_button, cursor_ray, time, ground_plane,
                    selection_state, markers, marker_commands,
                    car, car_transform,
                    selection_ran, frame,
                    loader_vars >>

----------------------------------------------------------------------------
(* splat_loader.rs: SplatLoaderPlugin *)

\* an entity spawned with (GaussianSceneHandle, Transform, LoadedSplat):
\* its id, the path of its handle and asset_server.get_load_state of it
LoadedSplat(id, path, load) == [id |-> id, path |-> path, load |-> load]

\* the steps of one frame of the loader: the StateTransition schedule, the
\* three Update systems, and the application of their Commands
LoaderSystems ==
    { "load_splat_on_demand", "handle_file_drop", "check_splat_loaded" }

LoaderSteps == { "StateTransition", "apply_deferred" } \cup LoaderSystems

\* the loader after a frame, before any path was given
LoaderIdle ==
    /\ load_state = "WaitingForPath"
    /\ next_state = "Unchanged"
    /\ splat_path = << >>
    /\ loaded_splats = {}
    /\ splat_commands = << >>
    /\ drop_events = << >>
    /\ loader_ran = LoaderSteps

\* load_from_cli_args, a Startup system: args is std::env::args, the
\* program name first.  With more than one element the path resource is
\* inserted with the element after the program name (args[1] in the
\* source, which counts from 0) and WaitingForPath is set as the next
\* state; further arguments are not read.
load_from_cli_args(args) ==
    /\ load_state = "WaitingForPath"
    /\ next_state = (IF Len(args) > 1 THEN "WaitingForPath" ELSE "Unchanged")
    /\ splat_path = (IF Len(args) > 1 THEN << args[2] >> ELSE << >>)
    /\ loaded_splats = {}
    /\ splat_commands = << >>
    /\ drop_events = << >>
    /\ loader_ran = LoaderSteps

\* an Update system of the loader may run: the state transition of the frame
\* is done and the system has not run yet
may_run(system) ==
    /\ "StateTransition" \in loader_ran
    /\ system \notin loader_ran

\* init_state: the StateTransition schedule, before Update, moves the pending
\* next state into the state
state_transition ==
    /\ "StateTransition" \notin loader_ran
    /\ load_state' = (IF next_state = "Unchanged" THEN load_state
                      ELSE next_state)
    /\ next_state' = "Unchanged"
    /\ loader_ran' = loader_ran \cup { "StateTransition" }
    /\ UNCHANGED << splat_path, loaded_splats, splat_commands, drop_events,
                    frame, drive_vars >>

load_splat_on_demand ==
    /\ may_run("load_splat_on_demand")
    /\ IF load_state = "WaitingForPath" /\ splat_path # << >>
       THEN /\ splat_commands' =
                  splat_commands \o
                  << [op |-> "despawn",
                      ids |-> { e.id : e \in loaded_splats }],
                     [op |-> "spawn", path |-> splat_path[1]] >>
            /\ next_state' = "Loading"
       ELSE UNCHANGED << splat_commands, next_state >>
    /\ loader_ran' = loader_ran \cup { "load_splat_on_demand" }
    /\ UNCHANGED << load_state, splat_path, loaded_splats, drop_events,
                    frame, drive_vars >>

\* the entities whose asset has finished loading, one way or the other
finished_splats == { e \in loaded_splats : e.load \in { "Loaded", "Failed" } }

\* runs only in_state(Loading); the query is iterated in spawn order, so the
\* last finished entity decides
check_splat_loaded ==
    /\ may_run("check_splat_loaded")
    /\ IF load_state = "Loading" /\ finished_splats # {}
       THEN LET last == CHOOSE e \in finished_splats :
                            \A f \in finished_splats : f.id <= e.id
            IN  next_state' = last.load
       ELSE UNCHANGED next_state
    /\ loader_ran' = loader_ran \cup { "check_splat_loaded" }
    /\ UNCHANGED << load_state, splat_path, loaded_splats, splat_commands,
                    drop_events, frame, drive_vars >>

handle_file_drop ==
    /\ may_run("handle_file_drop")
    /\ IF drop_events # << >>
       THEN /\ splat_commands' =
                  splat_commands \o
                  [i \in 1..Len(drop_events) |->
                      [op |-> "insert_resource", path |-> drop_events[i]]]
            /\ next_state' = "WaitingForPath"
       ELSE UNCHANGED << splat_commands, next_state >>
    /\ loader_ran' = loader_ran \cup { "handle_file_drop" }
    /\ UNCHANGED << load_state, splat_path, loaded_splats, drop_events,
                    frame, drive_vars >>

\* the world after the queued commands, applied in order; an entity spawned
\* in frame n has id n and its asset is loading
RECURSIVE apply_commands(_, _, _, _)
apply_commands(commands, path, splats, id) ==
    IF commands = << >> THEN [path |-> path, splats |-> splats]
    ELSE LET c == Head(commands)
         IN  CASE c.op = "insert_resource" ->
                      apply_commands(Tail(commands), << c.path >>, splats, id)
               [] c.op = "despawn" ->
                      apply_commands(Tail(commands), path,
                                     { e \in splats : e.id \notin c.ids }, id)
               [] c.op = "spawn" ->
                      apply_commands(Tail(commands), path,
                                     splats \cup
                                       { LoadedSplat(id, c.path, "Loading") },
                                     id)

\* the Commands of the frame's systems are applied when Update has run them
apply_deferred ==
    /\ LoaderSystems \subseteq loader_ran
    /\ "apply_deferred" \notin loader_ran
    /\ LET world == apply_commands(splat_commands, splat_path, loaded_splats,
                                   frame)
       IN  /\ splat_path' = world.path
           /\ loaded_splats' = world.splats
    /\ splat_commands' = << >>
    /\ loader_ran' = loader_ran \cup { "apply_deferred" }
    /\ UNCHANGED << load_state, next_state, drop_events, frame, drive_vars >>

\* the AssetServer between two frames: an asset that is loading may finish
\* loading or fail
asset_progress(splats) ==
    { after \in SUBSET { LoadedSplat(e.id, e.path, l) :
                            e \in splats, l \in { "Loading", "Loaded", "Failed" } } :
        /\ Cardinality(after) = Cardinality(splats)
        /\ \A e \in splats :
              \E a \in after :
                 /\ a.id = e.id
                 /\ a.load \in (IF e.load = "Loading"
                                THEN { "Loading", "Loaded", "Failed" }
                                ELSE { e.load }) }

\* a frame of the loader begins: the window's drop events arrive
begin_loader_frame(drops) ==
    /\ loader_ran = LoaderSteps
    /\ drop_events' \in drops
    /\ loaded_splats' \in asset_progress(loaded_splats)
    /\ loader_ran' = {}
    /\ UNCHANGED << load_state, next_state, splat_path, splat_commands,
                    drive_vars >>

----------------------------------------------------------------------------
(* One frame: the input resources are set, then the Update systems run:     *)
(* handle_car_input, update_car_physics, update_camera_follow chained in    *)
(* that order (car.rs 15-19), handle_plane_selection unordered with them;   *)
(* the picker's queued Commands are applied when all of them have run.      *)

ButtonInput(pressed, just_pressed) ==
    [pressed |-> pressed, just_pressed |-> just_pressed]

\* a click is the pair << Left just pressed, cursor ray or << >> >>
NoClick == << FALSE, << >> >>

Click(cursor) == << TRUE, cursor >>

begin_frame(keyboards, clicks, deltas) ==
    /\ pc = "done"
    /\ selection_ran
    /\ marker_commands = << >>
    /\ keyboard' \in keyboards
    /\ \E m \in clicks : mouse_button' = m[1] /\ cursor_ray' = m[2]
    /\ time' \in deltas
    /\ pc' = chain[1]
    /\ selection_ran' = FALSE
    /\ UNCHANGED << ground_plane, selection_state, markers, marker_commands,
                    car,
                    car_transform, camera_transform,
                    loader_vars >>

Init ==
    /\ keyboard = ButtonInput({}, {})
    /\ mouse_button = FALSE
    /\ cursor_ray = << >>
    /\ time = 0
    /\ ground_plane = GroundPlaneDefault
    /\ selection_state = [points |-> << >>, active |-> FALSE]
    /\ markers = << >>
    /\ marker_commands = << >>
    /\ car = Car(0, 0)
    /\ car_transform = Transform(Vec3(0, 5000, 0), QuatIdentity)
    /\ camera_transform = CameraTransform(Vec3(0, 100000, 200000), VecZero)
    /\ pc = "done"
    /\ selection_ran = TRUE
    /\ frame = 0
    /\ LoaderIdle

----------------------------------------------------------------------------
(* Inputs of the frames explored *)

\* bounds on the number of frames
MaxFrames == 4

MaxPickFrames == 5

\* bound on the number of frames of repeated pick sessions
MaxRepickFrames == 7

\* bound on the number of frames of the loader
MaxLoadFrames == 4

\* bound on the number of ticks the throttle is held
MaxThrottleFrames == 12

\* bound on the grid coordinates of the points planes are fitted to and
\* projected on
MaxCoord == 1

\* the point (x, y, z) of whole coordinates
Point32(x, y, z) == << F32Int(x), F32Int(y), F32Int(z) >>

\* a camera ray straight down from height 8 onto (x, 0, z)
RayDown(x, z) == Ray3d(Point32(x, 8, z), V32Neg(V32Y))

\* parallel to the default plane: denom = 0
RayParallel == Ray3d(Point32(0, 8, 0), Point32(1, 0, 0))

\* denom = -0.0001, not above the epsilon
RayGrazing == Ray3d(Point32(0, 8, 0), Vec32(Vec3(Scale, 0 - 1, 0)))

\* denom = -0.00005, below the epsilon
RayShallow ==
    Ray3d(Point32(0, 8, 0),
          << F32One, F32Neg(F32Div(Epsilon, F32Int(2))), F32Zero >>)

\* pointing away from the plane: t = -8
RayAway == Ray3d(Point32(0, 8, 0), V32Y)

\* from a point of the plane y = 0: t = 0
RayFromPlane == Ray3d(Point32(2, 0, 0), V32Neg(V32Y))

GoodRays == { RayDown(0, 0), RayDown(1, 0), RayDown(0, 1), RayDown(2, 0) }

BadRays == { RayParallel, RayGrazing, RayShallow, RayAway, RayFromPlane }

PickClicks ==
    { NoClick, Click(<< >>) } \cup { Click(<< r >>) : r \in GoodRays \cup BadRays }

PickKeyboards == { ButtonInput({}, j) : j \in SUBSET { "KeyP", "KeyR" } }

DriveKeys ==
    SUBSET { "KeyW", "KeyS", "KeyA", "KeyD" }
      \cup { {"ArrowUp"}, {"ArrowDown"}, {"ArrowLeft"}, {"ArrowRight"} }

DriveKeyboards == { ButtonInput(p, {}) : p \in DriveKeys }

\* delta_secs: 0 (a first frame), 0.05, 0.1 and 0.25 s
Deltas == { 0, 500, 1000, 2500 }

\* the joint specification's inputs: driving while picking
Keyboards ==
    { ButtonInput(p, j) : p \in { {}, {"KeyW", "KeyA"} },
                          j \in { {}, { "KeyP" }, { "KeyR" } } }

Clicks ==
    { NoClick, Click(<< RayDown(0, 0) >>), Click(<< RayDown(1, 0) >>),
      Click(<< RayDown(0, 1) >>), Click(<< RayAway >>) }

----------------------------------------------------------------------------
(* Spec: picking and driving together, MaxFrames frames *)

Frame ==
    /\ frame < MaxFrames
    /\ frame' = frame + 1
    /\ begin_frame(Keyboards, Clicks, { 2500 })

Next ==
    \/ Frame
    \/ handle_plane_selection
    \/ apply_picker_deferred
    \/ handle_car_input
    \/ update_car_physics
    \/ update_camera_follow

Spec == Init /\ [][Next]_vars

(* SpecPick: every picker input, the car left alone, MaxPickFrames frames *)

PickFrame ==
    /\ frame < MaxPickFrames
    /\ frame' = frame + 1
    /\ begin_frame(PickKeyboards, PickClicks, { 1000 })

NextPick ==
    \/ PickFrame
    \/ handle_plane_selection
    \/ apply_picker_deferred
    \/ handle_car_input
    \/ update_car_physics
    \/ update_camera_follow

SpecPick == Init /\ [][NextPick]_vars

(* SpecInput: input integration alone, any number of frames.  Only          *)
(* handle_car_input writes the Car component; the rest of each frame        *)
(* (pose, camera, picker) is skipped, which keeps the state space finite.   *)

InputFrame ==
    /\ pc # "handle_car_input"
    /\ keyboard' \in DriveKeyboards
    /\ time' \in Deltas
    /\ pc' = "handle_car_input"
    /\ UNCHANGED << mouse_button, cursor_ray, ground_plane, selection_state,
                    markers, marker_commands,
                    car, car_transform, camera_transform,
                    selection_ran, frame,
                    loader_vars >>

NextInput == InputFrame \/ handle_car_input

SpecInput == Init /\ [][NextInput]_vars

----------------------------------------------------------------------------
(* Steps and inputs the properties speak about *)

\* a step of handle_plane_selection
PickStep == ~selection_ran /\ selection_ran'

\* the marker entities as the tick leaves them: the world's markers with the
\* commands the picker has queued applied, as apply_picker_deferred does at
\* the end of the tick
TickMarkers == apply_marker_commands(markers, marker_commands)

\* a step of update_car_physics
PhysicsStep == pc = "update_car_physics" /\ pc' # pc

KeyP == "KeyP" \in keyboard.just_pressed

KeyR == "KeyR" \in keyboard.just_pressed

\* the picker is Active once the step has handled the toggle key
ActiveAfterToggle == selection_state.active # KeyP

\* the step pushes the third point of a session
ThirdPoint == Len(selection_state.points) = 2 /\ Len(selection_state'.points) = 3

\* the cross product from_three_points normalises is the zero vector
Collinear(p1, p2, p3) == V32Cross(V32Sub(p2, p1), V32Sub(p3, p1)) = V32Zero
Point(x, y, z) == Vec3(x * Scale, y * Scale, z * Scale)

----------------------------------------------------------------------------
(* Properties *)

\* C1: when the third accepted click completes a session of three collinear
\* or coincident points, the plane after the tick is the plane installed
\* before it, no NaN normal is installed, and the session is discarded.
\* (The code normalises the zero cross product and installs the NaN plane.)
C1_DegenerateFitRejected ==
    [][ (PickStep /\ ThirdPoint
           /\ Collinear(selection_state'.points[1], selection_state'.points[2],
                        selection_state'.points[3]))
        => /\ ground_plane' = ground_plane
           /\ ~V32IsNaN(ground_plane'.normal)
           /\ selection_state'.points = << >> ]_vars

\* C2: the third accepted click of a session of three non-collinear hit
\* points p1, p2, p3 installs the plane with origin p1, normal = up = (0,1,0)
\* (every hit lies in the plane y = 0) and is_selected, and leaves the picker
\* Inactive; hits (0,0,0), (1,0,0), (0,0,1) give origin (0,0,0).
C2_ThreeClickCompletion ==
    [][ (PickStep /\ ThirdPoint
           /\ ~Collinear(selection_state'.points[1], selection_state'.points[2],
                         selection_state'.points[3]))
        => /\ ground_plane'.origin = selection_state.points[1]
           /\ ground_plane'.normal = V32Y
           /\ ground_plane'.up = ground_plane'.normal
           /\ ground_plane'.is_selected
           /\ ~selection_state'.active
           /\ (selection_state'.points
                 = << Point32(0, 0, 0), Point32(1, 0, 0), Point32(0, 0, 1) >>
               => ground_plane'.origin = V32Zero) ]_vars

C2_Witness ==
    /\ selection_ran
    /\ selection_state.points
         = << Point32(0, 0, 0), Point32(1, 0, 0), Point32(0, 0, 1) >>
    /\ ~selection_state.active
    /\ ground_plane = GroundPlane(V32Zero, V32Y, V32Y, TRUE)

\* C3: after every input-integration tick, whatever the keys held and the
\* tick durations so far, -0.3 * max_speed <= velocity <= max_speed.
C3_SpeedClamp ==
    /\ car.velocity # NaN
    /\ 10 * car.velocity >= 0 - 3 * max_speed
    /\ car.velocity <= max_speed

\* the reverse clamp has acted: 5 braking ticks of 0.25 s ask for -9.375
C3_Witness ==
    /\ pc = "update_car_physics"
    /\ "KeyS" \in keyboard.pressed
    /\ 10 * car.velocity = 0 - 3 * max_speed

\* C4: after every input-integration tick |steering| <= max_steering, also on
\* the ticks without a steering key, where the angle is only relaxed.
C4_SteeringBound ==
    /\ car.steering # NaN
    /\ car.steering <= max_steering
    /\ car.steering >= 0 - max_steering

\* a tick without a steering key has relaxed the angle without reaching zero
C4_Witness ==
    /\ pc = "update_car_physics"
    /\ steering_input(keyboard) = 0
    /\ time > 0
    /\ car.steering # 0

\* C5: after every pose-advancement tick with |velocity| >= 0.001 the car's
\* height above the ground plane read in that tick is the ground offset 0.5.
\* (Fails on the NaN plane a degenerate pick installs, see C1.)
C5_GluedToPlane ==
    [][ (PhysicsStep /\ ~FLt(FAbs(car.velocity), 10))
        => FEq(height_at(PlaneFixed(ground_plane), car_transform'.translation),
               5000) ]_vars

\* C6 as stated: a toggle taken while Inactive gives Active with no points
\* and no markers, and a toggle taken while Active gives Inactive with the
\* same cleanup (ticks without a click, which could add a point).
C6_ToggleCleansBothWays ==
    [][ (PickStep /\ KeyP /\ ~mouse_button)
        => /\ selection_state'.active = ~selection_state.active
           /\ selection_state'.points = << >>
           /\ TickMarkers' = << >> ]_vars

\* C7: a reset, from any picker state and plane, installs the default plane;
\* it leaves no points and no markers (but for the point a click of the same
\* tick adds afterwards) and does not change the active flag (but for a
\* toggle of the same tick).
C7_Reset ==
    [][ (PickStep /\ KeyR)
        => /\ ground_plane' = GroundPlane(V32Zero, V32Y, V32Y, FALSE)
           /\ (~mouse_button
                 => selection_state'.points = << >> /\ TickMarkers' = << >>)
           /\ Len(selection_state'.points) <= 1
           /\ Len(TickMarkers') = Len(selection_state'.points)
           /\ (~KeyP => selection_state'.active = selection_state.active) ]_vars

\* a reset while Active (no toggle in the tick): still Active, nothing picked
C7_Witness ==
    /\ selection_ran
    /\ "KeyR" \in keyboard.just_pressed
    /\ "KeyP" \notin keyboard.just_pressed
    /\ selection_state.active
    /\ selection_state.points = << >>
    /\ markers = << >>
    /\ marker_commands = << >>
    /\ ground_plane = GroundPlaneDefault
    /\ frame >= 4

\* C8: in a tick whose toggle/reset handling ends Inactive, a click adds no
\* point, spawns no marker and does not change the plane (what the tick's
\* reset did, if any, is all that happens).
C8_ClicksOnlyWhileActive ==
    [][ (PickStep /\ mouse_button /\ ~ActiveAfterToggle)
        => /\ ~selection_state'.active
           /\ IF KeyR
              THEN /\ selection_state'.points = << >>
                   /\ TickMarkers' = << >>
                   /\ ground_plane' = GroundPlaneDefault
              ELSE /\ selection_state'.points = selection_state.points
                   /\ TickMarkers' = markers
                   /\ ground_plane' = ground_plane ]_vars

\* the toggle-off and a click on a fresh spot arrive together: the session
\* keeps its one point
C8_Witness ==
    /\ selection_ran
    /\ "KeyP" \in keyboard.just_pressed
    /\ "KeyR" \notin keyboard.just_pressed
    /\ mouse_button
    /\ cursor_ray = << RayDown(1, 0) >>
    /\ ~selection_state.active
    /\ selection_state.points = << Point32(0, 0, 0) >>
    /\ Len(markers) = 1

\* |denom| < 0.0001 or t = num / denom <= 0.0, on the f32 values
Degenerate(denom, num) ==
    \/ F32Lt(F32Abs(denom), Epsilon)
    \/ F32Lt(F32Div(num, denom), F32Zero)
    \/ F32Div(num, denom) = F32Zero

\* the click of the tick is invalid for the plane pl: no ray, or
\* |direction . normal| < 0.0001, or t <= 0
InvalidClick(pl) ==
    \/ cursor_ray = << >>
    \/ /\ cursor_ray # << >>
       /\ Degenerate(V32Dot(pl.normal, cursor_ray[1].direction),
                     V32Dot(V32Sub(pl.origin, cursor_ray[1].origin),
                            pl.normal))

\* C9: while Active (and with no toggle or reset in the tick), an invalid
\* click leaves points, markers, the active flag and the plane unchanged.
C9_InvalidClickIgnored ==
    [][ (PickStep /\ selection_state.active /\ ~KeyP /\ ~KeyR
           /\ mouse_button /\ InvalidClick(ground_plane))
        => UNCHANGED << selection_state, markers, marker_commands,
                        ground_plane >> ]_vars

\* a click pointing away from the plane (t = -8) after one accepted point
C9_Witness ==
    /\ selection_ran
    /\ keyboard.just_pressed = {}
    /\ mouse_button
    /\ cursor_ray = << RayAway >>
    /\ selection_state.active
    /\ Len(selection_state.points) = 1
    /\ Len(markers) = 1

\* C10: the plane changes only in a step of the picker in which the third
\* point of a session is pushed or a reset is handled (never in a toggle, a
\* first or second click, a rejected click, a car or a camera step), and up
\* and normal always hold the same stored value (from_three_points writes one
\* value to both fields, the NaN vector of a degenerate fit included).
C10_PlaneReplacedWholesale ==
    [][ /\ ground_plane'.up = ground_plane'.normal
        /\ (ground_plane' # ground_plane
              => PickStep /\ (KeyR \/ ThirdPoint)) ]_vars

\* a plane picked at (1,0,0) has survived a whole frame of driving
C10_Witness ==
    /\ pc = "done"
    /\ selection_ran
    /\ keyboard.just_pressed = {}
    /\ ~mouse_button
    /\ ground_plane = GroundPlane(Point32(1, 0, 0), V32Y, V32Y, TRUE)
    /\ FGt(car.velocity, 0)
    /\ car_transform.translation # Vec3(0, 5000, 0)

\* what a picker state looks like: Inactive, or Active with 0, 1 or 2 points;
\* never more than 3 points, one marker per point
SessionShape(state, marks) ==
    /\ state.active => Len(state.points) <= 2
    /\ Len(state.points) <= 3
    /\ Len(marks) = Len(state.points)

\* C11 as stated: after every tick of the picker (toggle, reset and click taken
\* in that order) it is Inactive or Active with 0, 1 or 2 points, it never
\* holds more than 3 points, and the session is cleared on toggle-off, on
\* reset and on the completion by a third point.
C11_SessionShapeCleared ==
    [][ PickStep
        => /\ SessionShape(selection_state', TickMarkers')
           /\ (selection_state.active /\ KeyP) => selection_state'.points = << >>
           /\ (KeyR /\ ~mouse_button) => selection_state'.points = << >>
           /\ ThirdPoint => selection_state'.points = << >> ]_vars

\* the last system of a tick's chain has just run
TickEnd == pc # "done" /\ pc' = "done"

\* C12: in every tick handle_car_input runs before update_car_physics, which
\* runs before update_camera_follow: the camera's look target at the end of
\* tick k is computed from the pose update_car_physics produced in tick k, and
\* that pose already reflects the speed handle_car_input produced in tick k
\* (the throttle held in the first tick moves the car in the first tick).
C12_TickOrder ==
    [][ /\ pc' # pc
            => << pc, pc' >> \in { << "done", "handle_car_input" >>,
                                  << "handle_car_input", "update_car_physics" >>,
                                  << "update_car_physics", "update_camera_follow" >>,
                                  << "update_camera_follow", "done" >> }
        /\ TickEnd
            => /\ camera_transform'.look_target
                    = VAdd(car_transform'.translation,
                           VScale(Forward(car_transform'.rotation), 5 * Scale))
               /\ (frame = 1 /\ "KeyW" \in keyboard.pressed)
                    => car_transform'.translation
                         = VAdd(Vec3(0, 5000, 0),
                                VScale(VScale(Forward(QuatIdentity),
                                              FMul(acceleration, time)), time))
       ]_vars

\* the end of a tick in which the car moved and turned: the camera looks at
\* the point ahead of the new pose
C12_Witness ==
    /\ pc = "done" /\ frame >= 2
    /\ car.velocity > 0
    /\ car_transform.rotation.yaw > 0
    /\ car_transform.translation[3] < 0
    /\ camera_transform.look_target
         = VAdd(car_transform.translation,
                VScale(Forward(car_transform.rotation), 5 * Scale))

----------------------------------------------------------------------------
(* SpecFit: GroundPlane::from_three_points on every triple of points of a   *)
(* grid and of three points off it                                         *)

\* the input resources and the entities no system of the step touches
Idle ==
    /\ keyboard = ButtonInput({}, {})
    /\ mouse_button = FALSE
    /\ cursor_ray = << >>
    /\ markers = << >>
    /\ marker_commands = << >>
    /\ camera_transform = CameraTransform(Vec3(0, 100000, 200000), VecZero)
    /\ selection_ran = TRUE
    /\ frame = 0
    /\ LoaderIdle

\* points of whole coordinates: f32 subtracts and multiplies them exactly
GridPoints ==
    { Point32(x, y, z) : x \in 0..MaxCoord, y \in 0..MaxCoord,
                         z \in 0..MaxCoord }

\* (0.1, 0, 0), (1.1, 0.1, 0.7) and (2.1, 1.2, 1.4): their differences and
\* products are rounded
OffGridPoints ==
    { Vec32(Vec3(1000, 0, 0)), Vec32(Vec3(11000, 1000, 7000)),
      Vec32(Vec3(21000, 12000, 14000)) }

FitPoints == GridPoints \cup OffGridPoints

InitFit ==
    /\ Idle
    /\ time = 0
    /\ car = Car(0, 0)
    /\ car_transform = Transform(Vec3(0, 5000, 0), QuatIdentity)
    /\ ground_plane = GroundPlaneDefault
    /\ \E p1 \in FitPoints, p2 \in FitPoints, p3 \in FitPoints :
           selection_state = [points |-> << p1, p2, p3 >>, active |-> TRUE]
    /\ pc = "from_three_points"

\* ground_plane.rs 166-174, the completion of a session:
\* *ground_plane = GroundPlane::from_three_points(points[0], points[1],
\* points[2]); selection_state.active = false
fit_plane ==
    /\ pc = "from_three_points"
    /\ ground_plane' = from_three_points(selection_state.points[1],
                                         selection_state.points[2],
                                         selection_state.points[3])
    /\ selection_state' = [selection_state EXCEPT !.active = FALSE]
    /\ pc' = "done"
    /\ UNCHANGED << keyboard, mouse_button, cursor_ray, time,
                    markers, marker_commands,
                    car, car_transform, camera_transform,
                    selection_ran, frame,
                    loader_vars >>

NextFit == fit_plane

SpecFit == InitFit /\ [][NextFit]_vars

\* the plane has been fitted to three points that are not collinear
FittedNonCollinear ==
    /\ pc = "done"
    /\ ~Collinear(selection_state.points[1], selection_state.points[2],
                  selection_state.points[3])

\* the normals of the planes fitted to the same points with two of them swapped
SwappedNormals ==
    LET p == selection_state.points
    IN  { from_three_points(p[2], p[1], p[3]).normal,
          from_three_points(p[1], p[3], p[2]).normal,
          from_three_points(p[3], p[2], p[1]).normal }

\* the normal of the fit with the second and the third point swapped: its
\* cross product v2 x v1 is the negated v1 x v2, component by component
SwappedNormal ==
    from_three_points(selection_state.points[1], selection_state.points[3],
                      selection_state.points[2]).normal

\* the normals of the fits with the first point swapped with another: the
\* differences are taken from another point
MovedNormals ==
    { from_three_points(selection_state.points[2], selection_state.points[1],
                        selection_state.points[3]).normal,
      from_three_points(selection_state.points[3], selection_state.points[2],
                        selection_state.points[1]).normal }

\* the normal a swap gives: the same when its y component is positive, the
\* opposite when it is zero
NormalOfSwap(normal) ==
    IF F32Gt(normal[2], F32Zero) THEN normal ELSE V32Neg(normal)

OnGrid == \A i \in 1..3 : selection_state.points[i] \in GridPoints

----------------------------------------------------------------------------
(* Input integration, tick by tick *)

\* a step of handle_car_input
InputStep == pc = "handle_car_input" /\ pc' # pc

SteerHeld == keyboard.pressed \cap { "KeyA", "ArrowLeft", "KeyD", "ArrowRight" } # {}

ThrottleHeld == keyboard.pressed \cap { "KeyW", "ArrowUp" } # {}

BrakeHeld == keyboard.pressed \cap { "KeyS", "ArrowDown" } # {}

\* C14: in a tick of handle_car_input with no steering key held, a steering
\* angle of magnitude below 2 * steering_speed * dt becomes exactly 0;
\* otherwise the angle moves toward zero by exactly 2 * steering_speed * dt
\* and does not change sign.
C14_SteeringSnap ==
    [][ (InputStep /\ ~SteerHeld)
        => LET relax == 2 * ((steering_speed * time) \div Scale)
           IN  IF Abs(car.steering) < relax
               THEN car'.steering = 0
               ELSE /\ Abs(car'.steering) = Abs(car.steering) - relax
                    /\ car'.steering * car.steering >= 0 ]_vars

\* a tick of 0.05 s without a steering key has relaxed the angle from the
\* limit 0.6 by 0.3: 0.3 is left, which a tick of 0.1 s would snap to zero
C14_Witness ==
    /\ pc = "update_car_physics"
    /\ ~SteerHeld
    /\ time = 500
    /\ Abs(car.steering) = max_steering - 3000

----------------------------------------------------------------------------
(* SpecPose: one run of update_car_physics and update_camera_follow from    *)
(* every combination of a speed, a steering angle, a ground plane, a pose   *)
(* and a tick duration drawn from the sets below                            *)

\* speeds between the reverse and the forward limit, 0.0005 and the values
\* around the 0.001 threshold among them
PoseSpeeds == { 0 - 90000, 0 - 5, 0, 5, 9, 10, 37500, 300000 }

\* steering angles between the limits, the values around 0.001 among them
PoseSteerings == { 0 - 6000, 0, 5, 15, 3000, 6000 }

\* the default plane, the picked plane y = 1 and the plane a degenerate pick
\* installs
PosePlanes ==
    { GroundPlaneDefault,
      from_three_points(Point32(0, 1, 0), Point32(0, 1, 1), Point32(1, 1, 0)),
      from_three_points(Point32(0, 0, 0), Point32(0, 0, 0),
                        Point32(0, 0, 0)) }

\* the spawn pose and a pose elsewhere; yaws 0 and pi/2; up axes aligned with
\* world Y (tilt 0, and 0.0447 where the dot product is still 0.999), just
\* off it (0.0448) and 0.5 rad and pi/2 away from it
PoseTransforms ==
    { Transform(t, Quat(yaw, tilt)) :
        t \in { Vec3(0, 5000, 0), Vec3(30000, 5000, 0 - 20000) },
        yaw \in { 0, 15708 },
        tilt \in { 0, 447, 448, 5000, 15708 } }

\* Time::delta_secs: 0, 1/60 s, 0.05 s, 0.1 s and Time<Virtual>'s max_delta
PoseDeltas == Deltas \cup { 167 }

InitPose ==
    /\ Idle
    /\ selection_state = [points |-> << >>, active |-> FALSE]
    /\ time \in PoseDeltas
    /\ \E v \in PoseSpeeds, s \in PoseSteerings : car = Car(v, s)
    /\ car_transform \in PoseTransforms
    /\ ground_plane \in PosePlanes
    /\ pc = "update_car_physics"

NextPose == update_car_physics \/ update_camera_follow

SpecPose == InitPose /\ [][NextPose]_vars

\* C15: a tick of update_car_physics entered with |velocity| < 0.001 leaves
\* the car's translation and rotation as they were, whatever the steering
\* angle and the ground plane.
C15_StationaryNoOp ==
    [][ (PhysicsStep /\ FLt(FAbs(car.velocity), 10))
        => car_transform' = car_transform ]_vars

\* after the tick: speed 0.0005, full steering lock, the plane y = 1 picked
\* and a tilted up axis, and the car still at its spawn pose
C15_Witness ==
    /\ pc = "update_camera_follow"
    /\ car.velocity = 5
    /\ car.steering = max_steering
    /\ ground_plane.origin = Point32(0, 1, 0)
    /\ time = 2500
    /\ car_transform = Transform(Vec3(0, 5000, 0), Quat(0, 5000))

----------------------------------------------------------------------------
(* SpecThrottle: the throttle alone held from the start, tick after tick of *)
(* one duration, MaxThrottleFrames ticks                                    *)

ThrottleKeyboards ==
    { ButtonInput(p, {}) : p \in (SUBSET { "KeyW", "ArrowUp" }) \ { {} } }

ThrottleDeltas == { 500, 1000, 2500 }

InitThrottle ==
    /\ Idle
    /\ selection_state = [points |-> << >>, active |-> FALSE]
    /\ time \in ThrottleDeltas
    /\ car = Car(0, 0)
    /\ car_transform = Transform(Vec3(0, 5000, 0), QuatIdentity)
    /\ ground_plane = GroundPlaneDefault
    /\ pc = "done"

ThrottleFrame ==
    /\ frame < MaxThrottleFrames
    /\ frame' = frame + 1
    /\ begin_frame(ThrottleKeyboards, { NoClick }, { time })

NextThrottle ==
    \/ ThrottleFrame
    \/ handle_plane_selection
    \/ handle_car_input
    \/ update_car_physics
    \/ update_camera_follow

SpecThrottle == InitThrottle /\ [][NextThrottle]_vars

\* the ticks whose input integration has run
InputTicks == IF pc = "handle_car_input" THEN frame - 1 ELSE frame

\* the ticks whose pose advancement has run
PoseTicks ==
    IF pc \in { "handle_car_input", "update_car_physics" } THEN frame - 1
    ELSE frame

\* C16: with only the throttle held from speed 0 for n ticks of duration dt
\* the speed after the n-th tick is min(n * acceleration * dt, max_speed); the
\* steering angle stays 0, the orientation stays the initial one and the car
\* stays on the line through its start along its initial forward axis (-Z),
\* ahead of the start once it has moved.
C16_ThrottleIntegration ==
    /\ car.velocity
         = (IF InputTicks * FMul(acceleration, time) < max_speed
            THEN InputTicks * FMul(acceleration, time) ELSE max_speed)
    /\ car.steering = 0
    /\ car_transform.rotation = QuatIdentity
    /\ car_transform.translation[1] = 0
    /\ car_transform.translation[2] = 5000
    /\ IF PoseTicks >= 1 THEN car_transform.translation[3] < 0
       ELSE car_transform.translation[3] = 0

\* the end of the tenth tick of 0.1 s: speed 15, the car ahead of its start
C16_Witness ==
    /\ pc = "done" /\ frame = 10 /\ time = 1000
    /\ car.velocity = 15 * Scale
    /\ car_transform.translation[3] < 0

----------------------------------------------------------------------------
(* SpecProject: GroundPlane::project_point on every grid point, for every   *)
(* plane through a grid point with an axis-aligned unit normal              *)

ProjectPoints ==
    { Point(x, y, z) : x \in (0 - MaxCoord)..MaxCoord,
                       y \in (0 - MaxCoord)..MaxCoord,
                       z \in (0 - MaxCoord)..MaxCoord }

AxisNormals == { VecX, VNeg(VecX), VecY, VNeg(VecY),
                 Vec3(0, 0, Scale), Vec3(0, 0, 0 - Scale) }

InitProject ==
    /\ Idle
    /\ selection_state = [points |-> << >>, active |-> FALSE]
    /\ time = 0
    /\ car = Car(0, 0)
    /\ \E p \in ProjectPoints : car_transform = Transform(p, QuatIdentity)
    /\ \E o \in ProjectPoints, n \in AxisNormals :
           ground_plane = GroundPlane(Vec32(o), Vec32(n), Vec32(n), TRUE)
    /\ pc = "project_point"

\* car.rs 253: transform.translation = ground_plane.project_point(..)
project_translation ==
    /\ pc \in { "project_point", "projected" }
    /\ car_transform' =
           Transform(project_point(PlaneFixed(ground_plane),
                                   car_transform.translation),
                     car_transform.rotation)
    /\ pc' = IF pc = "project_point" THEN "projected" ELSE "done"
    /\ UNCHANGED << keyboard, mouse_button, cursor_ray, time, ground_plane,
                    selection_state, markers, marker_commands,
                    car, camera_transform,
                    selection_ran, frame,
                    loader_vars >>

NextProject == project_translation

SpecProject == InitProject /\ [][NextProject]_vars

\* C17: for every plane with an axis-aligned unit normal and every grid
\* point, the projected point has height 0 above the plane and projecting it
\* again gives the same point.
C17_ProjectionIdempotent ==
    [][ pc' # pc
        => /\ height_at(PlaneFixed(ground_plane),
                        car_transform'.translation) = 0
           /\ project_point(PlaneFixed(ground_plane),
                            car_transform'.translation)
                = car_transform'.translation
           /\ pc = "projected"
                => car_transform'.translation = car_transform.translation
       ]_vars

\* a point off the plane has been projected, then projected again
C17_Witness ==
    /\ pc = "done"
    /\ ground_plane.normal = Point32(0 - 1, 0, 0)
    /\ ground_plane.origin = Point32(1, 0, 0 - 1)
    /\ car_transform.translation = Point(1, 1, 1)

----------------------------------------------------------------------------
(* SpecCoast: input integration tick after tick of one positive duration,   *)
(* the Update schedule running for ever                                     *)

CoastKeys ==
    { {}, { "KeyW" }, { "KeyS" }, { "KeyW", "KeyS" }, { "KeyA" },
      { "KeyW", "KeyD" }, { "ArrowUp" }, { "ArrowDown" } }

CoastKeyboards == { ButtonInput(p, {}) : p \in CoastKeys }

\* delta_secs: 0.1 s and 0.25 s
CoastDeltas == { 1000, 2500 }

InitCoast ==
    /\ Idle
    /\ selection_state = [points |-> << >>, active |-> FALSE]
    /\ time \in CoastDeltas
    /\ car = Car(0, 0)
    /\ car_transform = Transform(Vec3(0, 5000, 0), QuatIdentity)
    /\ ground_plane = GroundPlaneDefault
    /\ pc = "done"

CoastFrame ==
    /\ pc # "handle_car_input"
    /\ keyboard' \in CoastKeyboards
    /\ pc' = "handle_car_input"
    /\ UNCHANGED << mouse_button, cursor_ray, time, ground_plane,
                    selection_state, markers, marker_commands,
                    car, car_transform,
                    camera_transform, selection_ran, frame,
                    loader_vars >>

NextCoast == CoastFrame \/ handle_car_input

\* the app's runner never stops running the Update schedule
SpecCoast == InitCoast /\ [][NextCoast]_vars /\ WF_vars(NextCoast)

\* the speed the throttle and brake branches leave before friction and clamp
AfterPedals ==
    LET v1 == IF ThrottleHeld THEN car.velocity + FMul(acceleration, time)
              ELSE car.velocity
    IN  IF ~BrakeHeld THEN v1
        ELSE IF v1 > 0 THEN v1 - FMul(brake_power, time)
        ELSE v1 - FMul(acceleration, time) \div 2

\* C18: in a tick of handle_car_input friction acts exactly when neither the
\* throttle nor the brake is held, whatever the steering keys and the speed:
\* it then moves the speed toward zero by exactly friction * dt without
\* changing its sign, or sets it to exactly 0 when |speed| < friction * dt;
\* with a pedal held the speed is the clamped result of the pedals alone.  So
\* when from some tick on no pedal is held (dt fixed and positive) the speed
\* is eventually 0 for good.
C18_InputGatedFriction ==
    /\ [][ InputStep
           => IF ~ThrottleHeld /\ ~BrakeHeld
              THEN IF Abs(car.velocity) < FMul(friction, time)
                   THEN car'.velocity = 0
                   ELSE /\ Abs(car'.velocity)
                             = Abs(car.velocity) - FMul(friction, time)
                        /\ car'.velocity * Sgn(car.velocity) >= 0
              ELSE car'.velocity
                     = Clamp(AfterPedals, 0 - (3 * max_speed) \div 10, max_speed)
         ]_vars
    /\ <>[](~ThrottleHeld /\ ~BrakeHeld) => <>[](car.velocity = 0)

\* friction has just slowed a reversing car while it is being steered
C18_Witness ==
    /\ pc = "update_car_physics"
    /\ keyboard.pressed = { "KeyA" }
    /\ car.velocity < 0
    /\ car.steering > 0

----------------------------------------------------------------------------
(* Pose advancement, tick by tick *)

Moving == ~FLt(FAbs(car.velocity), 10)

\* the up axis is off the plane normal: the dot product is below 0.999
Misaligned == off_normal(car_transform.rotation, VFixed(ground_plane.normal))

\* C19: in every tick of update_car_physics with the car's up axis misaligned
\* with the plane normal, for every tick duration, the up axis is turned by
\* the fraction 10 * dt of its angle to the normal and ends between where it
\* was and the normal, never past the normal.
C19_RealignNoOvershoot ==
    [][ (PhysicsStep /\ Moving /\ Misaligned)
        => LET angle  == WrapAngle(car_transform.rotation.tilt)
               angle1 == car_transform'.rotation.tilt
           IN  /\ angle1 = angle - FMul(FMul(10 * Scale, time), angle)
               /\ 0 <= angle1
               /\ angle1 <= angle ]_vars

Steered == FGt(FAbs(car.steering), 10)

\* the pose after a translation of velocity * dt along the axis forward,
\* the projection onto the plane and the ground offset
MovedAlong(forward) ==
    VAdd(project_point(PlaneFixed(ground_plane),
                       VAdd(car_transform.translation,
                            VScale(VScale(forward, car.velocity), time))),
         VScale(VFixed(ground_plane.normal), 5000))

\* the yaw after the bicycle-model turn about the plane's up axis
TurnedYaw ==
    FAdd(car_transform.rotation.yaw,
         FMul(FDiv(car.velocity, FDiv(wheelbase, Tan(car.steering))), time))

\* C20 as stated: in a tick of update_car_physics with |velocity| >= 0.001
\* and |steering| > 0.001 the turn about the plane's up axis is applied first
\* and the translation of velocity * dt is taken along the forward axis of
\* the already turned orientation.
C20_TurnThenTranslate ==
    [][ (PhysicsStep /\ Moving /\ Steered /\ ~V32IsNaN(ground_plane.up))
        => /\ car_transform'.rotation.yaw = TurnedYaw
           /\ car_transform'.translation
                = MovedAlong(Forward(car_transform'.rotation)) ]_vars

\* C20 amended: in such a tick the orientation is turned about the plane's up
\* axis, and the translation of velocity * dt is taken along the forward axis
\* the car had when the tick began, before the turn.
C20_TranslateAlongOldForward ==
    [][ (PhysicsStep /\ Moving /\ Steered /\ ~V32IsNaN(ground_plane.up))
        => /\ car_transform'.rotation.yaw = TurnedYaw
           /\ car_transform'.translation
                = MovedAlong(Forward(car_transform.rotation)) ]_vars

\* a tick of 0.25 s at speed 3.75 and steering 0.3 from the spawn pose: the
\* car has turned and has moved straight along -Z
C20_Witness ==
    /\ pc = "update_camera_follow"
    /\ car = Car(37500, 3000)
    /\ time = 2500
    /\ ground_plane = GroundPlaneDefault
    /\ car_transform.rotation.yaw > 0
    /\ car_transform.rotation.yaw < 15708
    /\ car_transform.translation = Vec3(0, 5000, 0 - 9375)

----------------------------------------------------------------------------
(* SpecLoad: the splat loader alone, files dropped in any frame, the three  *)
(* Update systems of the loader in every order, MaxLoadFrames frames        *)

\* the dropped files of one frame
LoadDrops == { << >>, << "a.ply" >>, << "b.ply" >>, << "a.ply", "b.ply" >> }

\* std::env::args: the program alone, with one path, with two paths
CliArgs ==
    { << "gaussrace" >>, << "gaussrace", "cli.ply" >>,
      << "gaussrace", "cli.ply", "b.ply" >> }

InitLoad ==
    /\ keyboard = ButtonInput({}, {})
    /\ mouse_button = FALSE
    /\ cursor_ray = << >>
    /\ time = 0
    /\ ground_plane = GroundPlaneDefault
    /\ selection_state = [points |-> << >>, active |-> FALSE]
    /\ markers = << >>
    /\ marker_commands = << >>
    /\ car = Car(0, 0)
    /\ car_transform = Transform(Vec3(0, 5000, 0), QuatIdentity)
    /\ camera_transform = CameraTransform(Vec3(0, 100000, 200000), VecZero)
    /\ pc = "done"
    /\ selection_ran = TRUE
    /\ frame = 0
    /\ \E args \in CliArgs : load_from_cli_args(args)

LoadFrame ==
    /\ frame < MaxLoadFrames
    /\ frame' = frame + 1
    /\ begin_loader_frame(LoadDrops)

NextLoad ==
    \/ LoadFrame
    \/ state_transition
    \/ load_splat_on_demand
    \/ handle_file_drop
    \/ check_splat_loaded
    \/ apply_deferred

SpecLoad == InitLoad /\ [][NextLoad]_vars

\* the last step of a loader frame: the frame's commands are applied
LoaderFrameEnd ==
    "apply_deferred" \notin loader_ran /\ "apply_deferred" \in loader_ran'

\* C21: a frame in which a file was dropped ends, whatever the load state and
\* whatever the order of handle_file_drop, load_splat_on_demand and
\* check_splat_loaded, with WaitingForPath as the pending next state and the
\* dropped path as the SplatPath, so that the next frame's
\* load_splat_on_demand starts loading it; and at most one LoadedSplat entity
\* exists.
C21_DropTriggersLoad ==
    [][ LoaderFrameEnd
        => /\ Cardinality(loaded_splats') <= 1
           /\ drop_events # << >>
                => /\ next_state' = "WaitingForPath"
                   /\ splat_path' = << drop_events[Len(drop_events)] >>
       ]_vars

----------------------------------------------------------------------------
(* SpecRepick: pick sessions one after another, the later ones against the  *)
(* plane an earlier one installed, MaxRepickFrames frames                    *)

\* a camera ray from the eye (1, 2, 3) towards the point (6, 0, 0) of the
\* default plane, its direction normalised as Camera::viewport_to_world does
RaySlant ==
    Ray3d(Point32(1, 2, 3),
          V32Normalize(V32Sub(Point32(6, 0, 0), Point32(1, 2, 3))))

RepickClicks ==
    { NoClick, Click(<< RayDown(0, 0) >>), Click(<< RayDown(1, 0) >>),
      Click(<< RayDown(0, 1) >>), Click(<< RaySlant >>) }

RepickKeyboards == { ButtonInput({}, j) : j \in { {}, { "KeyP" }, { "KeyR" } } }

RepickFrame ==
    /\ frame < MaxRepickFrames
    /\ frame' = frame + 1
    /\ begin_frame(RepickKeyboards, RepickClicks, { 1000 })

NextRepick ==
    \/ RepickFrame
    \/ handle_plane_selection
    \/ apply_picker_deferred
    \/ handle_car_input
    \/ update_car_physics
    \/ update_camera_follow

SpecRepick == Init /\ [][NextRepick]_vars

\* C22: every accepted pick point lies in the default plane, and every plane
\* a third point installs from three non-collinear points is coplanar with
\* the default plane: its normal and up are (0,1,0), its origin has height 0
\* above the default plane, and it is marked selected (every number read to
\* the nearest 0.0001, which leaves the rounding of a hit point aside).
C22_PickedPlaneIsHorizontal ==
    [][ PickStep
        => /\ \A i \in 1..Len(selection_state'.points) :
                 height_at(PlaneFixed(GroundPlaneDefault),
                           VFixed(selection_state'.points[i])) = 0
           /\ (ThirdPoint /\ ~Collinear(selection_state'.points[1],
                                        selection_state'.points[2],
                                        selection_state'.points[3]))
                => /\ VFixed(ground_plane'.normal) = VecY
                   /\ VFixed(ground_plane'.up) = VecY
                   /\ height_at(PlaneFixed(GroundPlaneDefault),
                                VFixed(ground_plane'.origin)) = 0
                   /\ ground_plane'.is_selected ]_vars

====
